---- MODULE Spec2Model ----
(***************************************************************************)
(* The "Who's Right?" web-chat engine (whose-right/src/engine.ts): the     *)
(* session store, the per-turn conversation state machine (aiResponse)     *)
(* and the judgment engine (makeJudgment) with its scoreboard; and the     *)
(* voice gateway (twilio/server.js with engine.js), whose engine returns   *)
(* plain text and keeps no scoreboard.                                     *)
(*                                                                         *)
(* JavaScript runs each handler to its next await without interruption,    *)
(* so one action is one such run: from a call or an oracle's answer to     *)
(* the next await or the return.  The two oracles (the extraction and the  *)
(* adjudication completions) are the environment: their answers are drawn  *)
(* from small sets that contain well-formed and malformed answers.         *)
(*                                                                         *)
(* Text that the code measures or searches (the question, a relationship   *)
(* tag) is a sequence of one-character strings; text that it only compares *)
(* or copies (names, prompts) is a TLA+ string.                            *)
(***************************************************************************)
EXTENDS Integers, Sequences, FiniteSets, TLC

VARIABLES sessions, heap, nextObj, turns, reply, server, ws

vars == <<sessions, heap, nextObj, turns, reply, server, ws>>

---------------------------------------------------------------------------
(* Bounds of the model *)

\* setupSession calls in one behaviour (each allocates one SessionData object)
MaxObjs == 2

\* aiResponse calls that find their session, in one behaviour
MaxTurns == 2

\* aiResponse calls that may be awaiting an oracle at the same time
MaxInFlight == 2

---------------------------------------------------------------------------
(* Text *)

UpperCase == <<"A","B","C","D","E","F","G","H","I","J","K","L","M",
               "N","O","P","Q","R","S","T","U","V","W","X","Y","Z">>

LowerCase == <<"a","b","c","d","e","f","g","h","i","j","k","l","m",
               "n","o","p","q","r","s","t","u","v","w","x","y","z">>

\* String.prototype.toLowerCase, one character
LowerChar(c) ==
  IF \E i \in 1..Len(UpperCase) : UpperCase[i] = c
  THEN LowerCase[CHOOSE i \in 1..Len(UpperCase) : UpperCase[i] = c]
  ELSE c

\* String.prototype.toLowerCase
ToLowerCase(s) == [i \in 1..Len(s) |-> LowerChar(s[i])]

\* String.prototype.includes
Includes(s, sub) ==
  \E i \in 0..(Len(s) - Len(sub)) : SubSeq(s, i + 1, i + Len(sub)) = sub

\* String.prototype.substring(0, n)
Substring0(s, n) == SubSeq(s, 1, IF n < Len(s) THEN n ELSE Len(s))

WIFE == <<"w","i","f","e">>
UNKNOWN == <<"u","n","k","n","o","w","n">>
MY_WIFE == <<"M","y"," ","W","i","f","e">>
ELLIPSIS == <<".",".",".">>

\* a JavaScript value in a place where the code expects a string
JsString(s) == [type |-> "string", chars |-> s]
JsNumber(n) == [type |-> "number", num |-> n]
JsUndefined == [type |-> "undefined"]

\* truthiness of such a value: "", 0 and undefined are falsy
Truthy(v) ==
  IF v.type = "string" THEN v.chars # <<>>
  ELSE IF v.type = "number" THEN v.num # 0
  ELSE FALSE

---------------------------------------------------------------------------
(* Inputs *)

SessionIds == {"s1", "s2"}

\* the session of a single conversation
OneSession == {"s1"}
Utterances == {"hello"}
Persons == {"Jack", "Lori"}

\* a question of at most 50 characters and one of 73
ShortQuestion == <<"w","h","o"," ","i","s"," ","f","a","s","t","e","r","?">>
LongQuestion == [i \in 1..73 |-> LowerCase[((i - 1) % 26) + 1]]

\* a question of exactly 50 characters
QuestionOfFifty == SubSeq(LongQuestion, 1, 50)

---------------------------------------------------------------------------
(* Session store: const sessions = new Map<string, SessionData>() *)

ObjIds == 1..MaxObjs

\* sessions.get(id) of an id that is not a key
NoSession == 0

\* the SessionData object that setupSession stores
NewSessionData ==
  [conversation |-> <<>>,
   conversationState |-> "collecting_question",
   questionData |-> [question |-> <<>>,
                     answers |-> <<>>,
                     currentAnswer |-> "",
                     currentPerson |-> ""],
   participants |-> <<>>]

---------------------------------------------------------------------------
(* Scoreboard: participants: Map<string, number>, a list of <<key, value>>  *)
(* entries in insertion order                                              *)

\* Map.prototype.has
MapHas(m, k) == \E i \in 1..Len(m) : m[i][1] = k

\* Map.prototype.get(k) || 0
MapGetOr0(m, k) ==
  IF MapHas(m, k) THEN m[CHOOSE i \in 1..Len(m) : m[i][1] = k][2] ELSE 0

\* Map.prototype.set: a present key keeps its place, a new key goes last
MapSet(m, k, v) ==
  IF MapHas(m, k)
  THEN [i \in 1..Len(m) |-> IF m[i][1] = k THEN <<k, v>> ELSE m[i]]
  ELSE Append(m, <<k, v>>)

MapKeys(m) == {m[i][1] : i \in 1..Len(m)}

\* Array.from(session.participants.entries()).map(entry => ({name, score}))
ParticipantsList(m) ==
  [i \in 1..Len(m) |-> [name |-> m[i][1], score |-> m[i][2]]]

---------------------------------------------------------------------------
(* Output envelopes (the objects passed to JSON.stringify) *)

\* a key the envelope does not have
Absent == "(absent)"

NoTopic == <<>>

Envelope(type, content, winner, participants) ==
  [type |-> type, content |-> content, winner |-> winner,
   participants |-> ParticipantsList(participants)]

NoContent ==
  [template |-> "", who |-> "", text |-> "", topic |-> NoTopic, reason |-> 0]

\* aiResponse's early return without a value
Undefined ==
  [type |-> "undefined", content |-> NoContent, winner |-> Absent,
   participants |-> <<>>]

APOLOGY == "I'm sorry, I had trouble processing that. Could you please repeat your question and the different positions?"
TROUBLE == "I'm having trouble making a judgment right now. Please try calling back later!"

\* a fixed text, or the oracle's next_prompt verbatim
PlainText(text) ==
  [template |-> "text", who |-> "", text |-> text, topic |-> NoTopic,
   reason |-> 0]

\* the number of entries of absurdReasons
AbsurdReasons == 10

TopicLimit == 50

\* a topic that is cut from 50 characters on, not from 51
TopicCutAtFifty(question) ==
  IF Len(question) >= TopicLimit
  THEN Substring0(question, TopicLimit) \o ELLIPSIS
  ELSE question

\* question.length > 50 ? question.substring(0, 50) + "..." : question
Topic(question) ==
  IF Len(question) > TopicLimit
  THEN Substring0(question, TopicLimit) \o ELLIPSIS
  ELSE question

\* `Based on the question about ${topic}, the wife is absolutely ... ${randomReason} ...`
WifeVerdictText(topic, reason) ==
  [template |-> "the wife is absolutely, unequivocally right!",
   who |-> "", text |-> "", topic |-> topic, reason |-> reason]

\* `Based on the question about ${topic}, ` + outcome + explanation + sign-off
VerdictText(topic, winner, explanation) ==
  [template |-> IF winner = "tie" THEN "it's a tie! "
                ELSE IF winner = "none" THEN "nobody is right this time! "
                ELSE "${aiResponse.winner} is right! ",
   who |-> IF winner \in {"tie", "none"} THEN "" ELSE winner,
   text |-> explanation, topic |-> topic, reason |-> 0]

---------------------------------------------------------------------------
(* The extraction oracle: what openai.chat.completions.create gives         *)
(* aiResponse.  The code does not check the answer against the schema, so   *)
(* the answers below include ones the schema forbids.                       *)

Position(p) == IF p = "Jack" THEN "cheetah" ELSE "eagle"

\* an item of extracted_data.answers
Item(p, r) ==
  [kind |-> "object", person_name |-> p, person_relationship |-> r,
   person_position |-> Position(p)]

NullItem == [kind |-> "null"]

\* extracted_data.answers as an array, and as a value that is no array
Array(items) == [isArray |-> TRUE, items |-> items]
NotAnArray == [isArray |-> FALSE, items |-> <<>>]

Response(action, state, question, answers) ==
  [action |-> action,
   extracted_data |-> [question |-> question, answers |-> answers],
   next_prompt |-> "Who else has an answer? Say done when finished.",
   conversation_state |-> state]

Actions == {"collect_more", "analyze_and_respond"}
States == {"collecting_question", "collecting_answers", "ready_for_judgment"}

NoAnswers == <<>>
JackAlone == <<Item("Jack", JsString(UNKNOWN))>>
JackAndLori ==
  <<Item("Jack", JsString(UNKNOWN)), Item("Lori", JsString(UNKNOWN))>>

\* every action with every state, for no, one and two answers
FlowResponses ==
  { Response(a, st, ShortQuestion, Array(l)) :
      a \in Actions, st \in States, l \in {NoAnswers, JackAlone, JackAndLori} }

\* relationships: the empty string, none at all, "My Wife", and two wives
RelationshipResponses ==
  { Response(f[1], f[2], <<>>, Array(l)) :
      f \in { <<"collect_more", "collecting_answers">>,
              <<"analyze_and_respond", "ready_for_judgment">> },
      l \in { <<Item("Lori", JsString(<<>>))>>,
              <<Item("Jack", JsUndefined)>>,
              <<Item("Lori", JsString(MY_WIFE))>>,
              <<Item("Jack", JsString(MY_WIFE)), Item("Lori", JsString(WIFE))>> } }

\* questions: none, one of 50 characters, one of more
QuestionResponses ==
  { Response("collect_more", "collecting_question", q, Array(NoAnswers)) :
      q \in {<<>>, QuestionOfFifty, LongQuestion} }

\* answers the schema forbids: a null item, a relationship that is a
\* number, answers that is no array, no action, no conversation_state
BrokenResponses ==
  { Response("analyze_and_respond", "ready_for_judgment", LongQuestion,
             Array(<<Item("Jack", JsString(UNKNOWN)), NullItem>>)),
    Response("analyze_and_respond", "ready_for_judgment", LongQuestion,
             Array(<<Item("Jack", JsNumber(5)), Item("Lori", JsString(WIFE))>>)),
    Response("collect_more", "collecting_answers", LongQuestion, NotAnArray),
    Response("", "collecting_answers", LongQuestion, Array(JackAlone)),
    Response("collect_more", "", LongQuestion, Array(JackAlone)) }

ExtractionResponses ==
  FlowResponses \cup RelationshipResponses \cup QuestionResponses
    \cup BrokenResponses

\* the ways a completion ends: the call throws, the message has no
\* content, the content is not JSON, the content parses to a value
Completion(kind, json) == [kind |-> kind, json |-> json]

NoJson == [action |-> ""]

ExtractionOutcomes ==
  { Completion(k, NoJson) : k \in {"throws", "no content", "not JSON"} }
  \cup { Completion("json", r) : r \in ExtractionResponses }

---------------------------------------------------------------------------
(* The adjudication oracle: what openai.chat.completions.create gives       *)
(* makeJudgment                                                             *)

Judgment(winner, explanation) == [winner |-> winner, explanation |-> explanation]

\* a participant, "tie", "none", a position instead of a person, nothing
Winners == Persons \cup {"tie", "none", "cheetah", ""}

JudgmentResponses ==
  { Judgment(w, "Cheetahs run faster than eagles walk.") : w \in Winners }
  \cup { Judgment("Jack", "") }

JudgmentOutcomes ==
  { Completion(k, Judgment("", "")) : k \in {"throws", "no content", "not JSON"} }
  \cup { Completion("json", r) : r \in JudgmentResponses }

---------------------------------------------------------------------------
(* The oracles' answers where calls overlap or two sessions are in use: a   *)
(* part of the answers above, one for each way a turn can go                *)

RacingResponses ==
  { Response("collect_more", "collecting_answers", ShortQuestion,
             Array(JackAlone)),
    Response("analyze_and_respond", "ready_for_judgment", ShortQuestion,
             Array(JackAndLori)),
    Response("analyze_and_respond", "ready_for_judgment", <<>>,
             Array(<<Item("Lori", JsString(<<>>))>>)),
    Response("analyze_and_respond", "ready_for_judgment", <<>>,
             Array(<<Item("Lori", JsString(MY_WIFE))>>)) }

RacingExtractionOutcomes ==
  { Completion("throws", NoJson) }
  \cup { Completion("json", r) : r \in RacingResponses }

RacingJudgmentOutcomes ==
  { Completion("throws", Judgment("", "")) }
  \cup { Completion("json", Judgment(w, "Cheetahs run faster than eagles walk.")) :
           w \in {"Jack", "tie"} }

---------------------------------------------------------------------------
(* aiResponse, from the extraction oracle's answer to the decision          *)

\* !response.action || !response.conversation_state
InvalidStructure(response) ==
  response.action = "" \/ response.conversation_state = ""

\* a merge that keeps the question the session already has
MergeQuestionFirstWins(question, response) ==
  IF question # <<>> THEN question ELSE response.extracted_data.question

\* if (response.extracted_data?.question) question = ...
MergeQuestion(question, response) ==
  IF response.extracted_data.question # <<>>
  THEN response.extracted_data.question
  ELSE question

\* a push that stores the relationship as it was reported
StoredAnswerAsReported(item) ==
  [person |-> item.person_name,
   person_relationship |-> item.person_relationship,
   position |-> item.person_position]

\* the object pushed for one item of extracted_data.answers
StoredAnswer(item) ==
  [person |-> item.person_name,
   person_relationship |-> IF Truthy(item.person_relationship)
                           THEN item.person_relationship
                           ELSE JsString(UNKNOWN),
   position |-> item.person_position]

\* for (const answer of ...) answers.push(...): reading a property of null
\* throws, and the answers pushed before it stay pushed
RECURSIVE PushAnswers(_, _)
PushAnswers(answers, items) ==
  IF items = <<>> THEN [answers |-> answers, threw |-> FALSE]
  ELSE IF Head(items).kind = "null" THEN [answers |-> answers, threw |-> TRUE]
  ELSE PushAnswers(Append(answers, StoredAnswer(Head(items))), Tail(items))

\* a merge that stores the turn's answers in place of the session's
MergeAnswersInPlaceOfOld(answers, response) ==
  IF response.extracted_data.answers.isArray
  THEN PushAnswers(<<>>, response.extracted_data.answers.items)
  ELSE [answers |-> answers, threw |-> FALSE]

\* if (answers && Array.isArray(answers)) for ...
MergeAnswers(answers, response) ==
  IF response.extracted_data.answers.isArray
  THEN PushAnswers(answers, response.extracted_data.answers.items)
  ELSE [answers |-> answers, threw |-> FALSE]

\* a try block that never leaves ready_for_judgment once it is reached
ExtractedButReadyStays(session, completion) ==
  IF completion.kind # "json" \/ InvalidStructure(completion.json)
  THEN [session |-> session, threw |-> TRUE]
  ELSE LET response == completion.json
           question == MergeQuestion(session.questionData.question, response)
           pushed == MergeAnswers(session.questionData.answers, response)
           merged == [session EXCEPT !.questionData.question = question,
                                     !.questionData.answers = pushed.answers]
       IN  IF pushed.threw
           THEN [session |-> merged, threw |-> TRUE]
           ELSE [session |-> [merged EXCEPT !.conversationState =
                                IF @ = "ready_for_judgment"
                                THEN @ ELSE response.conversation_state],
                 threw |-> FALSE]

\* a try block that, when it throws, takes the scoreboard with it
ExtractedOrScoreboardLost(session, completion) ==
  IF completion.kind # "json" \/ InvalidStructure(completion.json)
  THEN [session |-> [session EXCEPT !.participants = <<>>], threw |-> TRUE]
  ELSE LET response == completion.json
           question == MergeQuestion(session.questionData.question, response)
           pushed == MergeAnswers(session.questionData.answers, response)
           merged == [session EXCEPT !.questionData.question = question,
                                     !.questionData.answers = pushed.answers]
       IN  IF pushed.threw
           THEN [session |-> merged, threw |-> TRUE]
           ELSE [session |-> [merged EXCEPT !.conversationState =
                                              response.conversation_state],
                 threw |-> FALSE]

\* The try block of aiResponse up to session.conversationState = ...: the
\* session as the block leaves it, and whether the block threw.
Extracted(session, completion) ==
  IF completion.kind # "json" \/ InvalidStructure(completion.json)
  THEN [session |-> session, threw |-> TRUE]
  ELSE LET response == completion.json
           question == MergeQuestion(session.questionData.question, response)
           pushed == MergeAnswers(session.questionData.answers, response)
           merged == [session EXCEPT !.questionData.question = question,
                                     !.questionData.answers = pushed.answers]
       IN  IF pushed.threw
           THEN [session |-> merged, threw |-> TRUE]
           ELSE [session |-> [merged EXCEPT !.conversationState =
                                              response.conversation_state],
                 threw |-> FALSE]

\* the condition under which aiResponse calls makeJudgment
ReadyForJudgment(response, session) ==
  \/ /\ response.action = "analyze_and_respond"
     /\ Len(session.questionData.answers) >= 2
  \/ session.conversationState = "ready_for_judgment"

\* a follow-up envelope that leaves the scoreboard out
FollowUpWithoutScoreboard(response, session) ==
  Envelope("message", PlainText(response.next_prompt), Absent, <<>>)

\* the envelope of the else branch
FollowUp(response, session) ==
  Envelope("message", PlainText(response.next_prompt), Absent,
           session.participants)

\* a catch block that throws the error on instead of returning an envelope
Rethrown(session) ==
  [type |-> "rejected", content |-> NoContent, winner |-> Absent,
   participants |-> <<>>]

\* a catch block that leaves the scoreboard out of its envelope
ApologyWithoutScoreboard(session) ==
  Envelope("message", PlainText(APOLOGY), Absent, <<>>)

\* the envelope of aiResponse's catch block
Apology(session) ==
  Envelope("message", PlainText(APOLOGY), Absent, session.participants)

---------------------------------------------------------------------------
(* makeJudgment *)

\* a test that compares without lower-casing and without includes
IsExactlyWife(relationship) == relationship = WIFE

\* relationship.toLowerCase().includes("wife") || ... === "wife"
IsWife(relationship) ==
  \/ Includes(ToLowerCase(relationship), WIFE)
  \/ ToLowerCase(relationship) = WIFE

\* questionData.answers.find(...): the index of the first answer the test
\* accepts (0: none); toLowerCase of a value that is no string throws
RECURSIVE FindFrom(_, _)
FindFrom(answers, i) ==
  IF i > Len(answers) THEN [threw |-> FALSE, index |-> 0]
  ELSE IF answers[i].person_relationship.type # "string"
       THEN [threw |-> TRUE, index |-> 0]
  ELSE IF IsWife(answers[i].person_relationship.chars)
       THEN [threw |-> FALSE, index |-> i]
  ELSE FindFrom(answers, i + 1)

\* a find that goes on to the last answer the test accepts
RECURSIVE FindLastFrom(_, _, _)
FindLastFrom(answers, i, last) ==
  IF i > Len(answers) THEN [threw |-> FALSE, index |-> last]
  ELSE IF answers[i].person_relationship.type # "string"
       THEN [threw |-> TRUE, index |-> 0]
  ELSE FindLastFrom(answers, i + 1,
                    IF IsWife(answers[i].person_relationship.chars)
                    THEN i ELSE last)

FindLastWifeAnswer(answers) == FindLastFrom(answers, 1, 0)

FindWifeAnswer(answers) == FindFrom(answers, 1)

\* a registration that sets every answer's person to 0, known or not
RECURSIVE AddParticipantsAnew(_, _)
AddParticipantsAnew(participants, answers) ==
  IF answers = <<>> THEN participants
  ELSE AddParticipantsAnew(MapSet(participants, Head(answers).person, 0),
                           Tail(answers))

\* answers.forEach(answer => { if (!participants.has(person)) set(person, 0) })
RECURSIVE AddParticipants(_, _)
AddParticipants(participants, answers) ==
  IF answers = <<>> THEN participants
  ELSE AddParticipants(
         IF MapHas(participants, Head(answers).person)
         THEN participants
         ELSE MapSet(participants, Head(answers).person, 0),
         Tail(answers))

\* an award that sets the score to 1 whatever it was
AwardFirstPoint(participants, name) == MapSet(participants, name, 1)

\* participants.set(name, (participants.get(name) || 0) + 1)
AwardPoint(participants, name) ==
  MapSet(participants, name, MapGetOr0(participants, name) + 1)

\* a wife branch that closes the round: the answers are cleared
WifeWinsAndRoundEnds(session, wifeAnswer) ==
  [session EXCEPT !.participants =
                    AwardPoint(AddParticipants(@, session.questionData.answers),
                               wifeAnswer.person),
                  !.questionData.answers = <<>>]

\* the wife branch: the session after it
WifeWins(session, wifeAnswer) ==
  [session EXCEPT !.participants =
     AwardPoint(AddParticipants(session.participants,
                                session.questionData.answers),
                wifeAnswer.person)]

WifeVerdict(session, wifeAnswer, reason) ==
  Envelope("judgment",
           WifeVerdictText(Topic(session.questionData.question), reason),
           wifeAnswer.person, session.participants)

\* the generic branch before the oracle is called
BeforeJudgmentCall(session) ==
  [session EXCEPT !.participants =
     AddParticipants(session.participants, session.questionData.answers)]

\* a validation that forgets the explanation
JudgmentFailsUnlessWinner(completion) ==
  \/ completion.kind # "json"
  \/ completion.json.winner = ""

\* the generic branch: whether the completion makes the try block throw
JudgmentFails(completion) ==
  \/ completion.kind # "json"
  \/ completion.json.winner = ""
  \/ completion.json.explanation = ""

\* an award that forgets "tie"
WinnerGetsPointAlsoForTie(winner) == winner # "" /\ winner # "none"

\* if (winner && winner !== "tie" && winner !== "none") award
WinnerGetsPoint(winner) == winner # "" /\ winner # "tie" /\ winner # "none"

\* an award that also starts the history afresh
AfterJudgmentStartingAfresh(session, judgment) ==
  [(IF WinnerGetsPoint(judgment.winner)
    THEN [session EXCEPT !.participants = AwardPoint(@, judgment.winner)]
    ELSE session) EXCEPT !.conversation = <<>>]

AfterJudgment(session, judgment) ==
  IF WinnerGetsPoint(judgment.winner)
  THEN [session EXCEPT !.participants = AwardPoint(@, judgment.winner)]
  ELSE session

Verdict(session, judgment) ==
  Envelope("judgment",
           VerdictText(Topic(session.questionData.question), judgment.winner,
                       judgment.explanation),
           judgment.winner, session.participants)

\* the envelope of makeJudgment's catch block
JudgmentTrouble(session) ==
  Envelope("message", PlainText(TROUBLE), Absent, session.participants)

---------------------------------------------------------------------------
(* State *)
(*   sessions  the Map: session id -> the SessionData object stored for it  *)
(*   heap      the SessionData objects; an aiResponse call keeps the object *)
(*             it looked up, whatever happens to the Map afterwards         *)
(*   nextObj   the next object setupSession allocates                       *)
(*   turns     the aiResponse calls: where each one stands, what it holds,  *)
(*             and a record of what it saw and did                          *)
(*   reply     what the last getSessionParticipants call returned, kept     *)
(*             for as long as no setupSession, deleteSession or step of an  *)
(*             aiResponse call has run since                                *)
(*   server    the program that runs: the web-chat engine behind its RPC    *)
(*             handlers, or one of the two voice gateways (twilio/server.js) *)
(*   ws        the voice gateway's WebSocket connections                    *)

TurnIds == 1..MaxInFlight

\* pc: "idle"     no call in this slot
\*     "extract"  awaiting the extraction oracle (engine.ts:157)
\*     "judge"    inside makeJudgment, awaiting the adjudication oracle (:354)
\*     "done"     the promise is resolved with result
NotReturned ==
  [type |-> "pending", content |-> NoContent, winner |-> Absent,
   participants |-> <<>>]

NoJudgment == Completion("", Judgment("", ""))

IdleTurn ==
  [pc |-> "idle", sessionId |-> "", session |-> NoSession,
   userInput |-> "",
   before |-> NewSessionData,     \* the session when aiResponse was called
   judged |-> FALSE,              \* makeJudgment was called
   judgedOn |-> NewSessionData,   \* the session when makeJudgment was called
   extractionCalls |-> 0, judgmentCalls |-> 0,
   deleted |-> FALSE,             \* deleteSession ran for its id while
                                  \* the call awaited an oracle
   extraction |-> "",             \* how the extraction completion ended
   response |-> NoJson,           \* and the value it parsed to
   adjudication |-> NoJudgment,   \* the adjudication completion
   path |-> "", result |-> NotReturned]

\* no getSessionParticipants call since the last operation on the store
NoReply == [asked |-> FALSE, sessionId |-> "", list |-> <<>>]

\* a connection of the voice gateway: the callSid its "setup" message
\* stored on it, what the token of the last message sent on it was (a
\* string, null, or undefined: JSON.stringify leaves the key out), and
\* whether a run of its message handler has ended in a rejected promise
\* that nothing handles
Connections == TurnIds

NoCallSid == "undefined"

NewConnection ==
  [open |-> TRUE, callSid |-> NoCallSid, sent |-> "", unhandled |-> FALSE]

\* the web-chat engine after its module is loaded
Init ==
  /\ sessions = [id \in SessionIds |-> NoSession]
  /\ heap = [o \in ObjIds |-> NewSessionData]
  /\ nextObj = 1
  /\ turns = [t \in TurnIds |-> IdleTurn]
  /\ reply = NoReply
  /\ server = "web"
  /\ ws = [c \in Connections |-> NewConnection]

RECURSIVE HistoryTotal(_)
HistoryTotal(o) ==
  IF o = 0 THEN 0 ELSE Len(heap[o].conversation) + HistoryTotal(o - 1)

\* the aiResponse calls so far that found their session
TurnsStarted == HistoryTotal(nextObj - 1)

---------------------------------------------------------------------------
(* Operations *)

\* a setupSession that carries the scoreboard of the session it replaces
SetupSessionKeepingScores(id) ==
  /\ nextObj <= MaxObjs
  /\ heap' = [heap EXCEPT ![nextObj] =
                IF sessions[id] = NoSession
                THEN NewSessionData
                ELSE [NewSessionData EXCEPT !.participants =
                                              heap[sessions[id]].participants]]
  /\ sessions' = [sessions EXCEPT ![id] = nextObj]
  /\ nextObj' = nextObj + 1
  /\ reply' = NoReply
  /\ UNCHANGED turns
  /\ UNCHANGED <<server, ws>>

\* a setupSession that stores one shared object for every id
SetupSessionShared(id) ==
  /\ nextObj <= MaxObjs
  /\ heap' = [heap EXCEPT ![1] = NewSessionData]
  /\ sessions' = [sessions EXCEPT ![id] = 1]
  /\ nextObj' = nextObj + 1
  /\ reply' = NoReply
  /\ UNCHANGED turns
  /\ UNCHANGED <<server, ws>>

\* setupSession(sessionId): sessions.set(sessionId, {...})
SetupSession(id) ==
  /\ nextObj <= MaxObjs
  /\ heap' = [heap EXCEPT ![nextObj] = NewSessionData]
  /\ sessions' = [sessions EXCEPT ![id] = nextObj]
  /\ nextObj' = nextObj + 1
  /\ reply' = NoReply
  /\ UNCHANGED turns
  /\ UNCHANGED <<server, ws>>

\* deleteSession(sessionId): sessions.delete(sessionId)
DeleteSession(id) ==
  /\ sessions' = [sessions EXCEPT ![id] = NoSession]
  /\ turns' = [t \in TurnIds |->
                IF turns[t].sessionId = id /\ turns[t].pc \in {"extract", "judge"}
                THEN [turns[t] EXCEPT !.deleted = TRUE]
                ELSE turns[t]]
  /\ reply' = NoReply
  /\ UNCHANGED <<heap, nextObj>>
  /\ UNCHANGED <<server, ws>>

\* what getSessionParticipants(sessionId) returns
SessionParticipants(id) ==
  IF sessions[id] = NoSession
  THEN <<>>
  ELSE ParticipantsList(heap[sessions[id]].participants)

\* a query that sets up the session it does not find
GetOrCreateSessionParticipants(id) ==
  /\ reply' = [asked |-> TRUE, sessionId |-> id,
               list |-> SessionParticipants(id)]
  /\ IF sessions[id] = NoSession /\ nextObj <= MaxObjs
     THEN /\ sessions' = [sessions EXCEPT ![id] = nextObj]
          /\ nextObj' = nextObj + 1
     ELSE UNCHANGED <<sessions, nextObj>>
  /\ UNCHANGED <<heap, turns>>
  /\ UNCHANGED <<server, ws>>

\* getSessionParticipants(sessionId), as the getParticipants handler calls it
GetSessionParticipants(id) ==
  /\ reply' = [asked |-> TRUE, sessionId |-> id,
               list |-> SessionParticipants(id)]
  /\ UNCHANGED <<sessions, heap, nextObj, turns>>
  /\ UNCHANGED <<server, ws>>

\* a call that sets up the session it does not find, and returns nothing
CallAiResponseOrSetUp(t, id, userInput) ==
  /\ turns[t].pc = "idle"
  /\ \A u \in TurnIds : u < t => turns[u].pc # "idle"
  /\ IF sessions[id] = NoSession
     THEN /\ turns' = [turns EXCEPT ![t] =
                         [IdleTurn EXCEPT !.pc = "done", !.sessionId = id,
                                          !.userInput = userInput,
                                          !.path = "no session",
                                          !.result = Undefined]]
          /\ IF nextObj <= MaxObjs
             THEN /\ sessions' = [sessions EXCEPT ![id] = nextObj]
                  /\ nextObj' = nextObj + 1
             ELSE UNCHANGED <<sessions, nextObj>>
          /\ UNCHANGED heap
     ELSE LET o == sessions[id] IN
          /\ TurnsStarted < MaxTurns
          /\ heap' = [heap EXCEPT ![o].conversation =
                        Append(@, [role |-> "user", content |-> userInput])]
          /\ turns' = [turns EXCEPT ![t] =
                         [IdleTurn EXCEPT !.pc = "extract", !.sessionId = id,
                                          !.session = o,
                                          !.userInput = userInput,
                                          !.before = heap[o],
                                          !.extractionCalls = 1]]
          /\ UNCHANGED <<sessions, nextObj>>
  /\ reply' = NoReply
  /\ UNCHANGED <<server, ws>>

\* aiResponse(userInput, sessionId) up to its first await
CallAiResponse(t, id, userInput) ==
  /\ turns[t].pc = "idle"
  /\ \A u \in TurnIds : u < t => turns[u].pc # "idle"
  /\ IF sessions[id] = NoSession
     THEN /\ turns' = [turns EXCEPT ![t] =
                         [IdleTurn EXCEPT !.pc = "done", !.sessionId = id,
                                          !.userInput = userInput,
                                          !.path = "no session",
                                          !.result = Undefined]]
          /\ UNCHANGED heap
     ELSE LET o == sessions[id] IN
          /\ TurnsStarted < MaxTurns
          /\ heap' = [heap EXCEPT ![o].conversation =
                        Append(@, [role |-> "user", content |-> userInput])]
          /\ turns' = [turns EXCEPT ![t] =
                         [IdleTurn EXCEPT !.pc = "extract", !.sessionId = id,
                                          !.session = o,
                                          !.userInput = userInput,
                                          !.before = heap[o],
                                          !.extractionCalls = 1]]
  /\ reply' = NoReply
  /\ UNCHANGED <<sessions, nextObj>>
  /\ UNCHANGED <<server, ws>>

\* a catch block that asks the extraction oracle once more before it gives up
ReturnedOrTriedAgain(turn, path, result) ==
  IF path = "apology" /\ turn.extractionCalls < 2
  THEN [turn EXCEPT !.extractionCalls = @ + 1]
  ELSE [turn EXCEPT !.pc = "done", !.path = path, !.result = result]

Returned(turn, path, result) ==
  [turn EXCEPT !.pc = "done", !.path = path, !.result = result]

\* aiResponse from the extraction oracle's answer to its return, or to the
\* await inside makeJudgment
ExtractionReturns(t, completion) ==
  /\ turns[t].pc = "extract"
  /\ LET o == turns[t].session
         ex == Extracted(heap[o], completion)
         session == ex.session
         turn == [turns[t] EXCEPT !.extraction = completion.kind,
                                  !.response = completion.json]
     IN
     IF ex.threw
     THEN /\ heap' = [heap EXCEPT ![o] = session]
          /\ turns' = [turns EXCEPT ![t] =
                         Returned(turn, "apology", Apology(session))]
     ELSE IF ~ReadyForJudgment(completion.json, session)
     THEN /\ heap' = [heap EXCEPT ![o] = session]
          /\ turns' = [turns EXCEPT ![t] =
                         Returned(turn, "follow-up",
                                  FollowUp(completion.json, session))]
     ELSE LET judging == [turn EXCEPT !.judged = TRUE, !.judgedOn = session]
              found == FindWifeAnswer(session.questionData.answers)
          IN
          IF found.threw
          THEN \* thrown outside makeJudgment's try: aiResponse catches it
               /\ heap' = [heap EXCEPT ![o] = session]
               /\ turns' = [turns EXCEPT ![t] =
                              Returned(judging, "apology", Apology(session))]
          ELSE IF found.index # 0
          THEN LET wifeAnswer == session.questionData.answers[found.index]
                   after == WifeWins(session, wifeAnswer)
               IN  /\ heap' = [heap EXCEPT ![o] = after]
                   /\ \E reason \in 1..AbsurdReasons :
                        turns' = [turns EXCEPT ![t] =
                                    Returned(judging, "wife",
                                             WifeVerdict(after, wifeAnswer, reason))]
          ELSE /\ heap' = [heap EXCEPT ![o] = BeforeJudgmentCall(session)]
               /\ turns' = [turns EXCEPT ![t] =
                              [judging EXCEPT !.pc = "judge",
                                              !.judgmentCalls = @ + 1]]
  /\ reply' = NoReply
  /\ UNCHANGED <<sessions, nextObj>>
  /\ UNCHANGED <<server, ws>>

\* a makeJudgment that, after its await, looks the session up again by id
JudgmentReturnsToStoredSession(t, completion) ==
  /\ turns[t].pc = "judge"
  /\ LET stored == sessions[turns[t].sessionId]
         o == IF stored = NoSession THEN turns[t].session ELSE stored
         turn == [turns[t] EXCEPT !.adjudication = completion]
     IN
     IF JudgmentFails(completion)
     THEN /\ turns' = [turns EXCEPT ![t] =
                         Returned(turn, "trouble", JudgmentTrouble(heap[o]))]
          /\ UNCHANGED heap
     ELSE LET after == AfterJudgment(heap[o], completion.json)
          IN  /\ heap' = [heap EXCEPT ![o] = after]
              /\ turns' = [turns EXCEPT ![t] =
                             Returned(turn, "verdict",
                                      Verdict(after, completion.json))]
  /\ reply' = NoReply
  /\ UNCHANGED <<sessions, nextObj>>
  /\ UNCHANGED <<server, ws>>

\* makeJudgment from the adjudication oracle's answer to its return
JudgmentReturns(t, completion) ==
  /\ turns[t].pc = "judge"
  /\ LET o == turns[t].session
         turn == [turns[t] EXCEPT !.adjudication = completion]
     IN
     IF JudgmentFails(completion)
     THEN /\ turns' = [turns EXCEPT ![t] =
                         Returned(turn, "trouble", JudgmentTrouble(heap[o]))]
          /\ UNCHANGED heap
     ELSE LET after == AfterJudgment(heap[o], completion.json)
          IN  /\ heap' = [heap EXCEPT ![o] = after]
              /\ turns' = [turns EXCEPT ![t] =
                             Returned(turn, "verdict",
                                      Verdict(after, completion.json))]
  /\ reply' = NoReply
  /\ UNCHANGED <<sessions, nextObj>>
  /\ UNCHANGED <<server, ws>>

\* the caller takes the resolved value (the RPC handler returns it, the
\* gateway sends it)
TakeResult(t) ==
  /\ turns[t].pc = "done"
  /\ turns' = [turns EXCEPT ![t] = IdleTurn]
  /\ reply' = NoReply
  /\ UNCHANGED <<sessions, heap, nextObj>>
  /\ UNCHANGED <<server, ws>>

\* the transport holds back the next turn of a session until the one
\* before it has returned
NoTurnPending(id) == \A t \in TurnIds : turns[t].sessionId # id

CallAiResponseInTurn(t, id, userInput) ==
  /\ NoTurnPending(id)
  /\ CallAiResponse(t, id, userInput)

---------------------------------------------------------------------------
(* Specifications *)

\* two session ids and any interleaving of calls, also of two turns on one
\* session
Next ==
  \/ \E id \in SessionIds : SetupSession(id)
  \/ \E id \in SessionIds : DeleteSession(id)
  \/ \E t \in TurnIds, id \in SessionIds, u \in Utterances : CallAiResponse(t, id, u)
  \/ \E t \in TurnIds, c \in RacingExtractionOutcomes : ExtractionReturns(t, c)
  \/ \E t \in TurnIds, c \in RacingJudgmentOutcomes : JudgmentReturns(t, c)
  \/ \E t \in TurnIds : TakeResult(t)
  \/ \E id \in SessionIds : GetSessionParticipants(id)

Spec == Init /\ [][Next]_vars

\* one conversation, its turns one after the other; the session may be
\* deleted and set up again at any moment
NextInTurn ==
  \/ \E id \in OneSession : SetupSession(id)
  \/ \E id \in OneSession : DeleteSession(id)
  \/ \E t \in TurnIds, id \in OneSession, u \in Utterances :
       CallAiResponseInTurn(t, id, u)
  \/ \E t \in TurnIds, c \in ExtractionOutcomes : ExtractionReturns(t, c)
  \/ \E t \in TurnIds, c \in JudgmentOutcomes : JudgmentReturns(t, c)
  \/ \E t \in TurnIds : TakeResult(t)
  \/ \E id \in OneSession : GetSessionParticipants(id)

SpecInTurn == Init /\ [][NextInTurn]_vars

\* every oracle call comes back: the completion a turn awaits is delivered
\* or fails in the end
OraclesAnswer ==
  \A t \in TurnIds :
    /\ WF_vars(\E c \in ExtractionOutcomes : ExtractionReturns(t, c))
    /\ WF_vars(\E c \in JudgmentOutcomes : JudgmentReturns(t, c))

\* one conversation from its setup on, its turns one after the other
NextConversation ==
  \/ \E id \in OneSession : SetupSession(id)
  \/ \E t \in TurnIds, id \in OneSession, u \in Utterances :
       CallAiResponseInTurn(t, id, u)
  \/ \E t \in TurnIds, c \in ExtractionOutcomes : ExtractionReturns(t, c)
  \/ \E t \in TurnIds, c \in JudgmentOutcomes : JudgmentReturns(t, c)
  \/ \E t \in TurnIds : TakeResult(t)

SpecConversation == Init /\ [][NextConversation]_vars /\ OraclesAnswer

\* one session whose turns may overlap: a turn is called while another one
\* awaits an oracle
NextRacing ==
  \/ \E id \in OneSession : SetupSession(id)
  \/ \E id \in OneSession : DeleteSession(id)
  \/ \E t \in TurnIds, id \in OneSession, u \in Utterances :
       CallAiResponse(t, id, u)
  \/ \E t \in TurnIds, c \in RacingExtractionOutcomes : ExtractionReturns(t, c)
  \/ \E t \in TurnIds, c \in RacingJudgmentOutcomes : JudgmentReturns(t, c)
  \/ \E t \in TurnIds : TakeResult(t)
  \/ \E id \in OneSession : GetSessionParticipants(id)

SpecRacing == Init /\ [][NextRacing]_vars

\* two sessions, the turns of each one after the other, the operations on
\* the one interleaved in any way with those on the other
NextTwoSessions ==
  \/ \E id \in SessionIds : SetupSession(id)
  \/ \E id \in SessionIds : DeleteSession(id)
  \/ \E t \in TurnIds, id \in SessionIds, u \in Utterances :
       CallAiResponseInTurn(t, id, u)
  \/ \E t \in TurnIds, c \in RacingExtractionOutcomes : ExtractionReturns(t, c)
  \/ \E t \in TurnIds, c \in RacingJudgmentOutcomes : JudgmentReturns(t, c)
  \/ \E t \in TurnIds : TakeResult(t)
  \/ \E id \in SessionIds : GetSessionParticipants(id)

SpecTwoSessions == Init /\ [][NextTwoSessions]_vars

---------------------------------------------------------------------------
(* The voice gateway (twilio/server.js).  It exists twice: as a server      *)
(* that imports setupSession, aiResponse and deleteSession from engine.js,  *)
(* and as a server that holds the sessions Map and aiResponse inline.       *)
(* Both handle the relay's "setup" and "prompt" messages and the close of   *)
(* the connection; their aiResponse and makeJudgment return the text to     *)
(* speak and keep no scoreboard.                                           *)

Gateways == {"engine.js", "inline"}

\* the object stored for a call: engine.js setupSession, and the inline
\* server's case "setup"
NewVoiceSession(gateway) ==
  IF gateway = "inline"
  THEN [conversation |-> <<>>,
        role |-> "system",
        conversationState |-> "collecting_question",
        questionData |-> [question |-> <<>>,
                          answers |-> <<>>,
                          currentAnswer |-> "",
                          currentPerson |-> ""]]
  ELSE [conversation |-> <<>>,
        conversationState |-> "collecting_question",
        questionData |-> [question |-> <<>>,
                          answers |-> <<>>,
                          currentAnswer |-> "",
                          currentPerson |-> ""]]

\* sessions.get(callSid): ws.callSid is undefined before "setup"
SessionsGet(callSid) ==
  IF callSid \in DOMAIN sessions THEN sessions[callSid] ELSE NoSession

\* the string (or undefined, or null) that aiResponse resolves to, in the
\* shape of the turn record's result
Spoken(content) ==
  [type |-> "string", content |-> content, winner |-> Absent,
   participants |-> <<>>]

Null ==
  [type |-> "null", content |-> NoContent, winner |-> Absent,
   participants |-> <<>>]

\* The voice extraction oracle answers with one person at most:
\* extracted_data holds question, person_relationship, person_name and
\* person_position.  hasData is FALSE for an answer without extracted_data.
VoiceResponse(action, state, question, name, relationship) ==
  [action |-> action,
   hasData |-> TRUE,
   extracted_data |-> [question |-> question,
                       person_relationship |-> relationship,
                       person_name |-> name,
                       person_position |-> IF name = "" THEN ""
                                           ELSE Position(name)],
   next_prompt |-> "Who else has an answer? Say done when finished.",
   conversation_state |-> state]

\* every action with every state, for no person and for one
VoiceFlowResponses ==
  { VoiceResponse(a, st, ShortQuestion, p, JsString(UNKNOWN)) :
      a \in Actions, st \in States, p \in {"", "Jack"} }

\* a wife, a person without a relationship, a name without a position, an
\* answer without an action, an answer without extracted_data
VoiceOtherResponses ==
  { VoiceResponse("analyze_and_respond", "ready_for_judgment", LongQuestion,
                  "Lori", JsString(MY_WIFE)),
    VoiceResponse("analyze_and_respond", "ready_for_judgment", <<>>,
                  "Lori", JsUndefined),
    [VoiceResponse("collect_more", "ready_for_judgment", <<>>, "Lori",
                   JsString(UNKNOWN))
       EXCEPT !.extracted_data.person_position = ""],
    VoiceResponse("", "ready_for_judgment", <<>>, "Lori", JsString(UNKNOWN)),
    [VoiceResponse("analyze_and_respond", "ready_for_judgment", <<>>, "",
                   JsString(UNKNOWN))
       EXCEPT !.hasData = FALSE] }

VoiceResponses == VoiceFlowResponses \cup VoiceOtherResponses

VoiceExtractionOutcomes ==
  { Completion(k, NoJson) : k \in {"throws", "no content", "not JSON"} }
  \cup { Completion("json", r) : r \in VoiceResponses }

\* the adjudication completion: the call throws, the message has a text,
\* the message has no content
VoiceJudgmentOutcomes ==
  { Completion(k, Judgment("", "")) : k \in {"throws", "no content"} }
  \cup { Completion("text", Judgment("", "Jack is right. Cheetahs run faster.")) }

\* the object pushed for the reported person
VoiceStoredAnswer(data) ==
  [person |-> data.person_name,
   person_relationship |-> data.person_relationship,
   position |-> data.person_position]

\* if (person_name && person_position) answers.push({...})
VoiceMergeAnswer(answers, response) ==
  LET data == response.extracted_data
  IN  IF data.person_name # "" /\ data.person_position # ""
      THEN Append(answers, VoiceStoredAnswer(data))
      ELSE answers

\* The try block of the voice aiResponse from JSON.parse to
\* session.conversationState = ...: reading a property of a missing
\* extracted_data throws before anything is stored.
VoiceExtracted(session, completion) ==
  IF completion.kind # "json" \/ ~completion.json.hasData
  THEN [session |-> session, threw |-> TRUE]
  ELSE LET response == completion.json
           data == response.extracted_data
       IN  [session |->
              [session EXCEPT
                 !.questionData.question =
                    IF data.question # <<>> THEN data.question ELSE @,
                 !.questionData.answers = VoiceMergeAnswer(@, response),
                 !.conversationState = response.conversation_state],
            threw |-> FALSE]

\* a condition that, as the web engine's does, also judges on the reported
\* state
VoiceJudgesAlsoOnState(response, session) ==
  \/ /\ response.action = "analyze_and_respond"
     /\ Len(session.questionData.answers) >= 2
  \/ session.conversationState = "ready_for_judgment"

\* the condition under which the voice aiResponse calls makeJudgment
VoiceReadyForJudgment(response, session) ==
  /\ response.action = "analyze_and_respond"
  /\ Len(session.questionData.answers) >= 2

\* the voice makeJudgment's find and topic are those of the web engine
VoiceFindWifeAnswer(answers) == FindFrom(answers, 1)

VoiceTopic(question) ==
  IF Len(question) > TopicLimit
  THEN Substring0(question, TopicLimit) \o ELLIPSIS
  ELSE question

\* either gateway after it has started to listen
InitVoice ==
  /\ server \in Gateways
  /\ sessions = [id \in OneSession |-> NoSession]
  /\ heap = [o \in ObjIds |-> NewVoiceSession(server)]
  /\ nextObj = 1
  /\ turns = [t \in TurnIds |-> IdleTurn]
  /\ reply = NoReply
  /\ ws = [c \in Connections |-> NewConnection]

\* case "setup": ws.callSid = callSid; a new session is stored for it
OnSetup(c, callSid) ==
  /\ ws[c].open
  /\ nextObj <= MaxObjs
  /\ ws' = [ws EXCEPT ![c].callSid = callSid]
  /\ heap' = [heap EXCEPT ![nextObj] = NewVoiceSession(server)]
  /\ sessions' = [sessions EXCEPT ![callSid] = nextObj]
  /\ nextObj' = nextObj + 1
  /\ UNCHANGED <<turns, reply, server>>

\* ws.on("close"): the session of ws.callSid is deleted
OnClose(c) ==
  /\ ws[c].open
  /\ ws' = [ws EXCEPT ![c].open = FALSE]
  /\ sessions' = [id \in DOMAIN sessions |->
                    IF id = ws[c].callSid THEN NoSession ELSE sessions[id]]
  /\ turns' = [t \in TurnIds |->
                IF turns[t].sessionId = ws[c].callSid
                   /\ turns[t].pc \in {"extract", "judge"}
                THEN [turns[t] EXCEPT !.deleted = TRUE]
                ELSE turns[t]]
  /\ UNCHANGED <<heap, nextObj, reply, server>>

\* case "prompt", up to the first await that waits.  Slot c of turns is the
\* handler run of connection c.
\*   engine.js gateway: aiResponse(voicePrompt, ws.callSid) returns
\*     undefined for a callSid without session.
\*   inline gateway: the handler itself reads sessions.get(ws.callSid) and
\*     calls session.conversation.push, which throws a TypeError when there
\*     is no session; the async handler's promise is rejected.
OnPrompt(c, voicePrompt) ==
  /\ ws[c].open
  /\ turns[c].pc = "idle"
  /\ LET o == SessionsGet(ws[c].callSid)
         call == [IdleTurn EXCEPT !.sessionId = ws[c].callSid,
                                  !.userInput = voicePrompt]
     IN
     IF o = NoSession
     THEN /\ turns' = [turns EXCEPT ![c] =
                         IF server = "inline"
                         THEN [call EXCEPT !.pc = "rejected",
                                           !.path = "TypeError"]
                         ELSE [call EXCEPT !.pc = "done",
                                           !.path = "no session",
                                           !.result = Undefined]]
          /\ UNCHANGED heap
     ELSE /\ TurnsStarted < MaxTurns
          /\ heap' = [heap EXCEPT ![o].conversation =
                        Append(@, [role |-> "user", content |-> voicePrompt])]
          /\ turns' = [turns EXCEPT ![c] =
                         [call EXCEPT !.pc = "extract", !.session = o,
                                      !.before = heap[o],
                                      !.extractionCalls = 1]]
  /\ UNCHANGED <<sessions, nextObj, reply, server, ws>>

\* the voice aiResponse from the extraction oracle's answer to its return,
\* or to the await inside makeJudgment
VoiceExtractionReturns(c, completion) ==
  /\ turns[c].pc = "extract"
  /\ LET o == turns[c].session
         ex == VoiceExtracted(heap[o], completion)
         session == ex.session
         turn == [turns[c] EXCEPT !.extraction = completion.kind,
                                  !.response = completion.json]
     IN
     /\ heap' = [heap EXCEPT ![o] = session]
     /\ IF ex.threw
        THEN turns' = [turns EXCEPT ![c] =
                         Returned(turn, "apology", Spoken(PlainText(APOLOGY)))]
        ELSE IF ~VoiceReadyForJudgment(completion.json, session)
        THEN turns' = [turns EXCEPT ![c] =
                         Returned(turn, "follow-up",
                                  Spoken(PlainText(completion.json.next_prompt)))]
        ELSE LET judging == [turn EXCEPT !.judged = TRUE, !.judgedOn = session]
                 found == VoiceFindWifeAnswer(session.questionData.answers)
             IN
             IF found.threw
             THEN \* makeJudgment's promise is rejected: aiResponse catches it
                  turns' = [turns EXCEPT ![c] =
                              Returned(judging, "apology",
                                       Spoken(PlainText(APOLOGY)))]
             ELSE IF found.index # 0
             THEN \E reason \in 1..AbsurdReasons :
                    turns' = [turns EXCEPT ![c] =
                                Returned(judging, "wife",
                                  Spoken(WifeVerdictText(
                                    VoiceTopic(session.questionData.question),
                                    reason)))]
             ELSE turns' = [turns EXCEPT ![c] =
                              [judging EXCEPT !.pc = "judge",
                                              !.judgmentCalls = @ + 1]]
  /\ UNCHANGED <<sessions, nextObj, reply, server, ws>>

\* the voice makeJudgment from the adjudication oracle's answer to its
\* return: the message's content as it is, or the fixed text of the catch
VoiceJudgmentReturns(c, completion) ==
  /\ turns[c].pc = "judge"
  /\ LET turn == [turns[c] EXCEPT !.adjudication = completion]
     IN  turns' = [turns EXCEPT ![c] =
           IF completion.kind = "throws"
           THEN Returned(turn, "trouble", Spoken(PlainText(TROUBLE)))
           ELSE IF completion.kind = "no content"
           THEN Returned(turn, "verdict", Null)
           ELSE Returned(turn, "verdict",
                         Spoken(PlainText(completion.json.explanation)))]
  /\ UNCHANGED <<sessions, heap, nextObj, reply, server, ws>>

\* ws.send(JSON.stringify({type: "text", token: response, last: true}));
\* on a connection that has closed meanwhile nothing goes out
OnPromptSends(c) ==
  /\ turns[c].pc = "done"
  /\ ws' = [ws EXCEPT ![c].sent =
                   IF ws[c].open THEN turns[c].result.type ELSE @]
  /\ turns' = [turns EXCEPT ![c] = IdleTurn]
  /\ UNCHANGED <<sessions, heap, nextObj, reply, server>>

\* the rejected promise of a handler run: nothing is sent, nothing handles
\* the rejection
OnPromptRejected(c) ==
  /\ turns[c].pc = "rejected"
  /\ ws' = [ws EXCEPT ![c].unhandled = TRUE]
  /\ turns' = [turns EXCEPT ![c] = IdleTurn]
  /\ UNCHANGED <<sessions, heap, nextObj, reply, server>>

\* the relay sends the next prompt after the reply to the one before
OnPromptInTurn(c, voicePrompt) ==
  /\ \A t \in TurnIds : turns[t].pc = "idle"
  /\ OnPrompt(c, voicePrompt)

\* one gateway with two connections that may be set up for the same call;
\* a connection may be set up or close while a prompt is being handled
NextVoice ==
  \/ \E c \in Connections, callSid \in OneSession : OnSetup(c, callSid)
  \/ \E c \in Connections : OnClose(c)
  \/ \E c \in Connections, u \in Utterances : OnPromptInTurn(c, u)
  \/ \E c \in Connections, completion \in VoiceExtractionOutcomes :
       VoiceExtractionReturns(c, completion)
  \/ \E c \in Connections, completion \in VoiceJudgmentOutcomes :
       VoiceJudgmentReturns(c, completion)
  \/ \E c \in Connections : OnPromptSends(c)
  \/ \E c \in Connections : OnPromptRejected(c)

SpecVoice == InitVoice /\ [][NextVoice]_vars

---------------------------------------------------------------------------
(* Properties.  In SpecInTurn a call that has returned (pc = "done") still  *)
(* holds its record, and no other call has touched its session since it     *)
(* was made: heap[turn.session] is the session as the call left it.         *)

AnswerPersons(answers) == {answers[i].person : i \in 1..Len(answers)}

\* a relationship that, lower-cased, contains "wife"
WifeTagged(answer) ==
  /\ answer.person_relationship.type = "string"
  /\ Includes(ToLowerCase(answer.person_relationship.chars), WIFE)

HasWifeTagged(answers) == \E i \in 1..Len(answers) : WifeTagged(answers[i])

\* every name a scoreboard of the model can hold
Names == Persons \cup Winners

Score(participants, name) == MapGetOr0(participants, name)

Done(t) == turns[t].pc = "done"

SessionOf(t) == heap[turns[t].session]

\* C1: makeJudgment is never called while the session, after the merge, has
\* fewer than 2 answers.
C1_JudgmentNeedsTwoAnswers ==
  \A t \in TurnIds :
    turns[t].judged => Len(turns[t].judgedOn.questionData.answers) >= 2

\* C2: after a turn whose extraction succeeded, a session with 2 or more
\* answers is in state ready_for_judgment, whatever state the oracle reported.
C2_TwoAnswersMeanReady ==
  \A t \in TurnIds :
    /\ Done(t)
    /\ turns[t].path \in {"follow-up", "wife", "verdict", "trouble"}
    /\ Len(SessionOf(t).questionData.answers) >= 2
    => SessionOf(t).conversationState = "ready_for_judgment"

\* C3: when aiResponse returns the apology, the session's question, answers,
\* state and scoreboard are what they were when it was called.
C3_ApologyLeavesSessionAsItWas ==
  \A t \in TurnIds :
    Done(t) /\ turns[t].result.content = PlainText(APOLOGY)
    => /\ SessionOf(t).questionData.question = turns[t].before.questionData.question
       /\ SessionOf(t).questionData.answers = turns[t].before.questionData.answers
       /\ SessionOf(t).conversationState = turns[t].before.conversationState
       /\ SessionOf(t).participants = turns[t].before.participants

\* C4: when the extraction oracle throws or its content is not JSON, the
\* envelope is a "message" with the apology text and the scoreboard as it was
\* before the call.
C4_ExtractionFailureEnvelope ==
  \A t \in TurnIds :
    Done(t) /\ turns[t].extraction \in {"throws", "not JSON"}
    => /\ turns[t].result.type = "message"
       /\ turns[t].result.content = PlainText(APOLOGY)
       /\ turns[t].result.participants =
            ParticipantsList(turns[t].before.participants)

C4_Witness ==
  \E t \in TurnIds :
    /\ Done(t) /\ turns[t].extraction = "not JSON"
    /\ Score(turns[t].before.participants, "Jack") = 1
    /\ Len(turns[t].before.participants) = 2

\* C5: when makeJudgment runs on answers one of which is wife-tagged, it
\* returns a "judgment" whose winner is a wife-tagged answer's person; that
\* person's score is 1 higher than before and no other score changes.
C5_WifeAlwaysWins ==
  \A t \in TurnIds :
    Done(t) /\ turns[t].judged
            /\ HasWifeTagged(turns[t].judgedOn.questionData.answers)
    => LET answers == turns[t].judgedOn.questionData.answers
           before == turns[t].judgedOn.participants
           after == SessionOf(t).participants
           winner == turns[t].result.winner
       IN  /\ turns[t].result.type = "judgment"
           /\ \E i \in 1..Len(answers) :
                WifeTagged(answers[i]) /\ answers[i].person = winner
           /\ \A name \in Names :
                Score(after, name) =
                  Score(before, name) + (IF name = winner THEN 1 ELSE 0)

C7_GenericAward ==
  \A t \in TurnIds :
    /\ Done(t) /\ turns[t].judgmentCalls = 1
    /\ turns[t].adjudication.kind = "json"
    /\ turns[t].adjudication.json.explanation # ""
    => LET winner == turns[t].adjudication.json.winner
           before == turns[t].judgedOn.participants
           after == SessionOf(t).participants
       IN  /\ winner \in AnswerPersons(turns[t].judgedOn.questionData.answers)
              => \A name \in Names :
                   Score(after, name) =
                     Score(before, name) + (IF name = winner THEN 1 ELSE 0)
           /\ winner \in {"tie", "none"}
              => \A name \in Names : Score(after, name) = Score(before, name)

C7_Witness ==
  \E t \in TurnIds :
    /\ Done(t) /\ turns[t].path = "verdict"
    /\ turns[t].adjudication.json.winner = "Jack"
    /\ "Jack" \in AnswerPersons(turns[t].judgedOn.questionData.answers)
    /\ Score(turns[t].judgedOn.participants, "Jack") = 1
    /\ Score(SessionOf(t).participants, "Jack") = 2

\* C8: the winner of every judgment envelope is the person of one of the
\* session's answers, "tie" or "none".
C8_WinnerIsParticipantTieOrNone ==
  \A t \in TurnIds :
    Done(t) /\ turns[t].result.type = "judgment"
    => turns[t].result.winner \in
         AnswerPersons(SessionOf(t).questionData.answers) \cup {"tie", "none"}

\* C9: the scoreboard's keys are exactly the persons of the answers appended
\* to the session so far.
C9_KeysAreTheAnsweredPersons ==
  \A o \in ObjIds :
    MapKeys(heap[o].participants) = AnswerPersons(heap[o].questionData.answers)

\* C10: when the adjudication call throws or gives no content, no JSON, no
\* winner or no explanation, makeJudgment returns the "trouble" message, no
\* score differs from before, and the only change of the scoreboard is that
\* the answers' persons who were no key are keys with score 0.
C10_JudgmentFailure ==
  \A t \in TurnIds :
    /\ Done(t) /\ turns[t].judgmentCalls = 1
    /\ \/ turns[t].adjudication.kind \in {"throws", "no content", "not JSON"}
       \/ turns[t].adjudication.json.winner = ""
       \/ turns[t].adjudication.json.explanation = ""
    => LET before == turns[t].judgedOn.participants
           after == SessionOf(t).participants
           persons == AnswerPersons(turns[t].judgedOn.questionData.answers)
       IN  /\ turns[t].result.type = "message"
           /\ turns[t].result.content = PlainText(TROUBLE)
           /\ \A name \in Names : Score(after, name) = Score(before, name)
           /\ MapKeys(after) = MapKeys(before) \cup persons

C10_Witness ==
  \E t \in TurnIds :
    /\ Done(t) /\ turns[t].path = "trouble"
    /\ turns[t].adjudication.kind = "json"
    /\ turns[t].adjudication.json.winner = "Jack"
    /\ Score(turns[t].judgedOn.participants, "Jack") = 1
    /\ ~MapHas(turns[t].judgedOn.participants, "Lori")
    /\ MapHas(SessionOf(t).participants, "Lori")

---------------------------------------------------------------------------
(* The scoreboard over time *)

\* every key of the scoreboard before is a key after, with no lower score
ScoreboardKept(before, after) ==
  \A name \in Names :
    MapHas(before, name)
    => MapHas(after, name) /\ Score(after, name) >= Score(before, name)

\* C11, as claimed: over every step that is no deleteSession of the id, so
\* also over a setupSession of an id that has a session, no score of the
\* id's session falls and no participant leaves its scoreboard.
C11_ScoresKeptUnlessDeleted ==
  [][\A id \in SessionIds :
       sessions[id] # NoSession /\ sessions'[id] # NoSession
       => ScoreboardKept(heap[sessions[id]].participants,
                         heap'[sessions'[id]].participants)]_vars

\* C11, amended: over every step that is neither a deleteSession nor a
\* setupSession of the id, no score of the id's session falls and no
\* participant leaves its scoreboard.
C11_ScoresKeptUnlessDeletedOrSetUp ==
  [][\A id \in SessionIds :
       sessions[id] # NoSession /\ sessions'[id] = sessions[id]
       => ScoreboardKept(heap[sessions[id]].participants,
                         heap'[sessions'[id]].participants)]_vars

\* a second round was judged on a scoreboard that had scores
C11_Witness ==
  \E t \in TurnIds :
    /\ Done(t) /\ turns[t].judged
    /\ sessions[turns[t].sessionId] = turns[t].session
    /\ Score(turns[t].judgedOn.participants, "Jack") = 1
    /\ MapHas(SessionOf(t).participants, "Lori")

\* the step is part of a makeJudgment call on session object o
InMakeJudgment(o) ==
  \E t \in TurnIds :
    /\ turns[t].session = o
    /\ turns[t].pc \in {"extract", "judge"}
    /\ turns'[t].judged

\* C12: a step that changes a session's scoreboard is a step of makeJudgment;
\* a turn that returns the follow-up prompt or the apology leaves the
\* scoreboard as it was when the turn began, and a getSessionParticipants
\* call changes no scoreboard.
C12_OnlyMakeJudgmentWritesScores ==
  [][/\ \A o \in ObjIds :
          heap'[o].participants # heap[o].participants => InMakeJudgment(o)
     /\ \A t \in TurnIds :
          /\ turns[t].pc = "extract"
          /\ turns'[t].path \in {"follow-up", "apology"}
          => heap'[turns[t].session].participants = turns[t].before.participants
     /\ reply'.asked => heap' = heap]_vars

\* after a round that Jack won, a turn has returned the follow-up prompt and
\* the scoreboard has been asked for
C12_Witness ==
  \E t \in TurnIds :
    /\ Done(t) /\ turns[t].path = "follow-up"
    /\ Score(turns[t].before.participants, "Jack") = 1
    /\ reply.asked /\ Len(reply.list) = 2

\* the step returns, from a turn on session object o, a judgment envelope
\* whose winner is name
JudgmentReturnedFor(o, name) ==
  \E t \in TurnIds :
    /\ turns[t].session = o
    /\ turns[t].pc \in {"extract", "judge"}
    /\ turns'[t].pc = "done"
    /\ turns'[t].result.type = "judgment"
    /\ turns'[t].result.winner = name

\* C13: a session starts with no scores, and every step adds to each
\* participant's score the number (0 or 1) of judgment envelopes it returns
\* in that session with that participant as winner: so a score is always the
\* number of judgment envelopes returned so far that name the participant.
C13_ScoreCountsJudgmentsWon ==
  [][/\ \A o \in ObjIds : o >= nextObj => heap[o].participants = <<>>
     /\ \A o \in ObjIds :
          \A name \in MapKeys(heap'[o].participants) :
            Score(heap'[o].participants, name) =
              Score(heap[o].participants, name)
                + (IF JudgmentReturnedFor(o, name) THEN 1 ELSE 0)]_vars

\* two rounds, each won by Jack
C13_Witness ==
  \E t \in TurnIds :
    /\ Done(t) /\ turns[t].result.type = "judgment"
    /\ turns[t].result.winner = "Jack"
    /\ Score(turns[t].before.participants, "Jack") = 1
    /\ turns[t].result.participants = <<[name |-> "Jack", score |-> 2],
                                        [name |-> "Lori", score |-> 0]>>

---------------------------------------------------------------------------
(* The session store's queries and lookups *)

\* C14: a getSessionParticipants call changes nothing in the store or in any
\* session; it returns the stored session's scoreboard as a list, or the
\* empty list when the id has no session; and it returns what the call
\* before it returned when no setup, delete or turn step ran in between.
C14_GetSessionParticipantsOnlyReads ==
  [][reply'.asked
     => /\ UNCHANGED <<sessions, heap, nextObj, turns>>
        /\ reply'.list =
             IF sessions[reply'.sessionId] = NoSession
             THEN <<>>
             ELSE ParticipantsList(heap[sessions[reply'.sessionId]].participants)
        /\ reply.asked /\ reply.sessionId = reply'.sessionId
           => reply'.list = reply.list]_vars

\* the scoreboard of a session with a score has been asked for
C14_Witness ==
  /\ reply.asked
  /\ sessions[reply.sessionId] # NoSession
  /\ reply.list = <<[name |-> "Jack", score |-> 1],
                    [name |-> "Lori", score |-> 0]>>

\* C15: an aiResponse call for an id that has no session resolves at once
\* with no envelope (undefined); it has called no oracle, and the store and
\* every session are as they were.
C15_NoSessionNoEffect ==
  [][\A t \in TurnIds :
       /\ turns[t].pc = "idle" /\ turns'[t].pc # "idle"
       /\ sessions[turns'[t].sessionId] = NoSession
       => /\ turns'[t].pc = "done"
          /\ turns'[t].result.type = "undefined"
          /\ turns'[t].extractionCalls = 0 /\ turns'[t].judgmentCalls = 0
          /\ UNCHANGED <<sessions, heap, nextObj>>]_vars

\* a call for s1, which has no session, while s2 has one with a score
C15_Witness ==
  \E t \in TurnIds :
    /\ Done(t) /\ turns[t].path = "no session" /\ turns[t].sessionId = "s1"
    /\ sessions["s1"] = NoSession
    /\ sessions["s2"] # NoSession
    /\ Score(heap[sessions["s2"]].participants, "Jack") = 1

---------------------------------------------------------------------------
(* Turns that overlap, and turns that outlive their session *)

\* C16: when a turn on an existing session returns, the participants of its
\* envelope are the scoreboard of its session at that moment, whatever other
\* turns did to the scoreboard while this one awaited an oracle.
C16_EnvelopeCarriesLiveScoreboard ==
  [][\A t \in TurnIds :
       turns[t].pc \in {"extract", "judge"} /\ turns'[t].pc = "done"
       => turns'[t].result.participants =
            ParticipantsList(heap'[turns[t].session].participants)]_vars

\* a turn returned the follow-up prompt with a scoreboard that another turn
\* had changed since this one was called
C16_Witness ==
  \E t \in TurnIds :
    /\ Done(t) /\ turns[t].path = "follow-up"
    /\ turns[t].before.participants = <<>>
    /\ turns[t].result.participants = <<[name |-> "Jack", score |-> 1],
                                        [name |-> "Lori", score |-> 0]>>

\* C17: when deleteSession ran for a turn's id while the turn awaited an
\* oracle, no step of the turn from then on changes the store or any session
\* in it: the id is not put back, and a session set up for the id since is
\* left as it is.
C17_DeletedSessionGetsNoResult ==
  [][\A t \in TurnIds :
       /\ turns[t].deleted
       /\ turns[t].pc \in {"extract", "judge"} /\ turns'[t] # turns[t]
       => /\ sessions' = sessions
          /\ \A id \in SessionIds :
               sessions[id] # NoSession
               => heap'[sessions[id]] = heap[sessions[id]]]_vars

\* the session was deleted while the turn awaited an oracle and set up
\* again; the turn returned a verdict for Jack, and the new session is as
\* setupSession made it
C17_Witness ==
  \E t \in TurnIds :
    /\ Done(t) /\ turns[t].deleted /\ turns[t].path = "verdict"
    /\ turns[t].result.winner = "Jack"
    /\ sessions[turns[t].sessionId] \notin {NoSession, turns[t].session}
    /\ heap[sessions[turns[t].sessionId]] = NewSessionData

\* the answers a returned turn was given by the extraction oracle, as stored
AnswersOf(t) ==
  IF /\ turns[t].extraction = "json"
     /\ ~InvalidStructure(turns[t].response)
     /\ turns[t].response.extracted_data.answers.isArray
  THEN LET items == turns[t].response.extracted_data.answers.items
       IN  [i \in 1..Len(items) |-> StoredAnswer(items[i])]
  ELSE <<>>

\* the judgment envelopes among the two turns' results that name the winner
JudgmentsWon(t1, t2, name) ==
  Cardinality({t \in {t1, t2} : /\ turns[t].result.type = "judgment"
                                /\ turns[t].result.winner = name})

\* C18: when two turns of a session have both returned and are the only
\* turns it has had (its history has two entries), then however their steps
\* were interleaved, the session's answers are the answers of the one
\* followed by the answers of the other, and each participant's score is the
\* number of the two verdicts that name the participant.
C18_OverlappingTurnsLoseNothing ==
  \A t1, t2 \in TurnIds :
    /\ t1 # t2 /\ Done(t1) /\ Done(t2)
    /\ turns[t1].session # NoSession
    /\ turns[t1].session = turns[t2].session
    /\ Len(SessionOf(t1).conversation) = 2
    => LET session == SessionOf(t1) IN
       /\ session.questionData.answers \in
            {AnswersOf(t1) \o AnswersOf(t2), AnswersOf(t2) \o AnswersOf(t1)}
       /\ \A name \in MapKeys(session.participants) :
            Score(session.participants, name) = JudgmentsWon(t1, t2, name)

\* turn 1 was called first and its extraction came back last; both turns
\* returned a verdict for Jack, and Jack's score is 2
C18_Witness ==
  /\ Done(1) /\ Done(2)
  /\ turns[1].session = turns[2].session
  /\ turns[1].before.conversation = <<>>
  /\ Len(turns[2].before.conversation) = 1
  /\ Len(AnswersOf(1)) = 2 /\ Len(AnswersOf(2)) = 1
  /\ SessionOf(1).questionData.answers = AnswersOf(2) \o AnswersOf(1)
  /\ turns[1].path = "verdict" /\ turns[1].result.winner = "Jack"
  /\ turns[2].path = "verdict" /\ turns[2].result.winner = "Jack"
  /\ Score(SessionOf(1).participants, "Jack") = 2

---------------------------------------------------------------------------
(* Two sessions *)

\* the step changes what the store holds for id: the entry, or the history,
\* question, answers, state or scoreboard of the session stored
Changed(id) ==
  \/ sessions'[id] # sessions[id]
  \/ sessions[id] # NoSession /\ heap'[sessions[id]] # heap[sessions[id]]

\* the step is the call, or the run after an oracle's answer, of a turn for id
TurnStepFor(id) ==
  \E t \in TurnIds :
    /\ turns'[t].sessionId = id
    /\ \/ turns[t].pc = "idle" /\ turns'[t].pc # "idle"
       \/ turns[t].pc \in {"extract", "judge"} /\ turns'[t].pc # turns[t].pc

\* C19: no step changes what the store holds for two ids, and a step of a
\* turn for one id changes nothing of what the store holds for another id.
C19_SessionsAreIsolated ==
  [][\A a, b \in SessionIds :
       a # b => /\ ~(Changed(a) /\ Changed(b))
                /\ TurnStepFor(a) => ~Changed(b)]_vars

\* two sessions side by side: s1 has had a verdict for Jack, s2 has merged
\* its answers and awaits its judgment
C19_Witness ==
  \E t1, t2 \in TurnIds :
    /\ turns[t1].sessionId = "s1" /\ turns[t1].path = "verdict"
    /\ turns[t2].sessionId = "s2" /\ turns[t2].pc = "judge"
    /\ sessions["s1"] = turns[t1].session /\ sessions["s2"] = turns[t2].session
    /\ Score(heap[sessions["s1"]].participants, "Jack") = 1
    /\ Score(heap[sessions["s2"]].participants, "Jack") = 0
    /\ Len(heap[sessions["s2"]].questionData.answers) = 2

---------------------------------------------------------------------------
(* Initialization *)

\* a session as setupSession is to leave it
FullyInitialized(session) ==
  /\ session.conversation = <<>>
  /\ session.conversationState = "collecting_question"
  /\ session.questionData.question = <<>>
  /\ session.questionData.answers = <<>>
  /\ session.participants = <<>>

\* C20: the step that stores a session for an id, whether or not the id had
\* one, stores a session with empty history, question, answers and scoreboard
\* in state collecting_question; and every stored session that no turn has
\* been called on yet is in that form for whoever looks it up.
C20_SetupStoresInitializedSession ==
  [][\A id \in SessionIds :
       /\ sessions'[id] # sessions[id] /\ sessions'[id] # NoSession
          => FullyInitialized(heap'[sessions'[id]])
       /\ sessions[id] # NoSession /\ heap[sessions[id]].conversation = <<>>
          => FullyInitialized(heap[sessions[id]])]_vars

\* the id had a session with a score; setupSession has replaced it
C20_Witness ==
  /\ sessions["s1"] = 2
  /\ Score(heap[1].participants, "Jack") = 1
  /\ FullyInitialized(heap[2])
  /\ \A t \in TurnIds : turns[t].pc = "idle"

---------------------------------------------------------------------------
(* Every turn returns, and calls each oracle once at most *)

\* the turn has returned an envelope with a text in it
ReturnedText(t) ==
  /\ turns[t].pc = "done"
  /\ turns[t].result.type \in {"message", "judgment"}
  /\ turns[t].result.content # NoContent

C22_NoOracleCallIsRepeated ==
  [][\A t \in TurnIds :
       /\ turns'[t].extractionCalls <= 1 /\ turns'[t].judgmentCalls <= 1
       /\ turns'[t].extractionCalls > turns[t].extractionCalls
          => turns[t].pc = "idle"
       /\ turns'[t].judgmentCalls > turns[t].judgmentCalls
          => turns[t].pc = "extract" /\ turns'[t].extraction = "json"
       /\ turns[t].pc = "done" /\ turns'[t].pc # "idle"
          => turns'[t] = turns[t]]_vars

\* both oracles were called and the second call failed: the turn returned
\* the trouble message after one call of each
C22_Witness ==
  \E t \in TurnIds :
    /\ Done(t) /\ turns[t].path = "trouble"
    /\ turns[t].adjudication.kind = "not JSON"
    /\ turns[t].extractionCalls = 1 /\ turns[t].judgmentCalls = 1

---------------------------------------------------------------------------
(* Registration, delegation and the conversation state *)

\* C23: after a turn in which makeJudgment was invoked, every person of the
\* session's answers is a key of the scoreboard, and every name that was a
\* key before has the score it had, plus 1 if the verdict names it.
C23_JudgmentRegistersEveryPerson ==
  \A t \in TurnIds :
    Done(t) /\ turns[t].judged
    => LET before == turns[t].judgedOn.participants
           after == SessionOf(t).participants
       IN  /\ AnswerPersons(SessionOf(t).questionData.answers)
                \subseteq MapKeys(after)
           /\ \A name \in MapKeys(before) :
                Score(after, name) =
                  Score(before, name)
                    + (IF /\ turns[t].result.type = "judgment"
                          /\ turns[t].result.winner = name
                       THEN 1 ELSE 0)

\* a turn whose extraction succeeded: the try block reached the decision
Succeeded(t) ==
  /\ turns[t].extraction = "json"
  /\ ~Extracted(turns[t].before, Completion("json", turns[t].response)).threw

\* C24: makeJudgment is called only on a session whose state, after the
\* merge, is ready_for_judgment; every other turn whose extraction succeeded
\* returns a "message" with the oracle's next_prompt and has made no
\* adjudication call.
C24_DelegatesOnlyWhenReady ==
  \A t \in TurnIds :
    /\ turns[t].judged
       => turns[t].judgedOn.conversationState = "ready_for_judgment"
    /\ Done(t) /\ Succeeded(t) /\ ~turns[t].judged
       => /\ turns[t].result.type = "message"
          /\ turns[t].result.content = PlainText(turns[t].response.next_prompt)
          /\ turns[t].judgmentCalls = 0

\* how far along collecting_question -> collecting_answers ->
\* ready_for_judgment a state is
Rank(state) ==
  IF state = "collecting_question" THEN 1
  ELSE IF state = "collecting_answers" THEN 2
  ELSE 3

ExtractionCameBack(t) == turns[t].pc = "extract" /\ turns'[t].pc # "extract"

---------------------------------------------------------------------------
(* What a turn does to the history, the answers and the question *)

\* C26: the step in which aiResponse is called on an existing session adds
\* the entry (user, utterance) at the end of the session's history; no other
\* step changes a history; so a turn that has returned, with whatever
\* result, has added exactly that one entry.
C26_OneHistoryEntryPerCall ==
  [][/\ \A o \in ObjIds :
          IF \E t \in TurnIds : turns[t].pc = "idle" /\ turns'[t].session = o
          THEN \E t \in TurnIds :
                 /\ turns[t].pc = "idle" /\ turns'[t].session = o
                 /\ heap'[o].conversation =
                      Append(heap[o].conversation,
                             [role |-> "user", content |-> turns'[t].userInput])
          ELSE heap'[o].conversation = heap[o].conversation
     /\ \A t \in TurnIds :
          turns'[t].pc = "done" /\ turns'[t].session # NoSession
          => heap'[turns'[t].session].conversation =
               Append(turns'[t].before.conversation,
                      [role |-> "user", content |-> turns'[t].userInput])]_vars

\* the second turn of a session ended in the trouble message and the
\* history has the two utterances
C26_Witness ==
  \E t \in TurnIds :
    /\ Done(t) /\ turns[t].path = "trouble"
    /\ Len(turns[t].before.conversation) = 1
    /\ Len(SessionOf(t).conversation) = 2

IsPrefix(s, t) == Len(s) <= Len(t) /\ SubSeq(t, 1, Len(s)) = s

\* C27: in every step the answers of a session before it are a prefix of
\* the answers after it; and the step that returns a judgment leaves the
\* question and the answers as they were when makeJudgment was called.
C27_AnswersAreAppendOnly ==
  [][/\ \A o \in ObjIds :
          IsPrefix(heap[o].questionData.answers, heap'[o].questionData.answers)
     /\ \A t \in TurnIds :
          /\ turns[t].pc \in {"extract", "judge"} /\ turns'[t].pc = "done"
          /\ turns'[t].result.type = "judgment"
          => LET after == heap'[turns[t].session].questionData
                 asJudged == turns'[t].judgedOn.questionData
             IN  /\ after.question = asJudged.question
                 /\ after.answers = asJudged.answers
                 /\ IsPrefix(turns[t].before.questionData.answers,
                             after.answers)]_vars

\* a second round: the turn found two answers, added one and returned a
\* verdict, and the three answers are still there
C27_Witness ==
  \E t \in TurnIds :
    /\ Done(t) /\ turns[t].result.type = "judgment"
    /\ Len(turns[t].before.questionData.answers) = 2
    /\ Len(SessionOf(t).questionData.answers) = 3

\* C28: after a turn whose extraction succeeded the question is the one the
\* oracle reported in that turn if it reported one, and the question of
\* before if it reported none; and the answers are those of before followed
\* by the reported ones in their order.
C28_QuestionLastWriteWins ==
  \A t \in TurnIds :
    Done(t) /\ Succeeded(t)
    => LET reported == turns[t].response.extracted_data.question
           before == turns[t].before.questionData
           after == SessionOf(t).questionData
       IN  /\ after.question = IF reported # <<>> THEN reported
                               ELSE before.question
           /\ after.answers = before.answers \o AnswersOf(t)

\* the session had a long question; the turn reported another one and two
\* answers
C28_Witness ==
  \E t \in TurnIds :
    /\ Done(t) /\ Succeeded(t)
    /\ turns[t].before.questionData.question = LongQuestion
    /\ SessionOf(t).questionData.question = ShortQuestion
    /\ Len(AnswersOf(t)) = 2

\* a relationship that is absent or the empty string
Missing(relationship) ==
  relationship.type = "undefined" \/ relationship = JsString(<<>>)

\* C29: no answer stored in a session has an absent or empty relationship;
\* an answer that the oracle reported with one is stored with "unknown".
C29_RelationshipIsNeverMissing ==
  /\ \A o \in ObjIds :
       \A i \in 1..Len(heap[o].questionData.answers) :
         ~Missing(heap[o].questionData.answers[i].person_relationship)
  /\ \A t \in TurnIds :
       Done(t) /\ Succeeded(t)
       => LET items == turns[t].response.extracted_data.answers.items
              base == Len(turns[t].before.questionData.answers)
              stored == SessionOf(t).questionData.answers
          IN  \A i \in 1..Len(items) :
                Missing(items[i].person_relationship)
                => stored[base + i].person_relationship = JsString(UNKNOWN)

\* makeJudgment ran on an answer that was reported without a relationship
C29_Witness ==
  \E t \in TurnIds :
    /\ Done(t) /\ turns[t].judged
    /\ turns[t].response.extracted_data.answers.items =
         <<Item("Jack", JsUndefined)>>
    /\ \E i \in 1..Len(turns[t].judgedOn.questionData.answers) :
         turns[t].judgedOn.questionData.answers[i] =
           [person |-> "Jack", person_relationship |-> JsString(UNKNOWN),
            position |-> "cheetah"]

---------------------------------------------------------------------------
(* The text of a verdict *)

\* C30: in every judgment envelope, of the wife branch and of the generic
\* branch, the topic is the session's question when that has at most 50
\* characters, and otherwise its first 50 characters followed by "...".
C30_TopicIsCutAfterFifty ==
  \A t \in TurnIds :
    Done(t) /\ turns[t].path \in {"wife", "verdict"}
    => LET question == SessionOf(t).questionData.question
           topic == turns[t].result.content.topic
       IN  IF Len(question) <= 50
           THEN topic = question
           ELSE /\ Len(topic) = 53
                /\ \A i \in 1..50 : topic[i] = question[i]
                /\ \A i \in 51..53 : topic[i] = "."

\* a wife verdict on the question of 73 characters
C30_Witness ==
  \E t \in TurnIds :
    /\ Done(t) /\ turns[t].path = "wife"
    /\ SessionOf(t).questionData.question = LongQuestion
    /\ Len(turns[t].result.content.topic) = 53

---------------------------------------------------------------------------
(* The wife override over the turns of a session *)

\* the earliest wife-tagged answer, in answers order
FirstWifeTagged(answers) ==
  answers[CHOOSE i \in 1..Len(answers) :
            /\ WifeTagged(answers[i])
            /\ \A j \in 1..(i - 1) : ~WifeTagged(answers[j])]

\* C32: every makeJudgment that runs on answers one of which is wife-tagged
\* takes the wife-override path: it has returned without a call of the
\* adjudication oracle, and its winner, whose score is 1 higher than before,
\* is the person of the session's earliest wife-tagged answer (the same
\* person in every later turn, since answers are only appended).
C32_WifeOnceIsWifeEverAfter ==
  \A t \in TurnIds :
    turns[t].judged /\ HasWifeTagged(turns[t].judgedOn.questionData.answers)
    => LET wife == FirstWifeTagged(turns[t].judgedOn.questionData.answers)
       IN  /\ Done(t)
           /\ turns[t].path = "wife"
           /\ turns[t].judgmentCalls = 0
           /\ turns[t].result.winner = wife.person
           /\ Score(SessionOf(t).participants, wife.person) =
                Score(turns[t].judgedOn.participants, wife.person) + 1

\* C33: the winner of a wife override is the person of the earliest
\* wife-tagged answer in answers order, that person's score is 1 higher
\* than before, and no other score has changed.
C33_EarliestWifeWins ==
  \A t \in TurnIds :
    Done(t) /\ turns[t].path = "wife"
    => LET answers == turns[t].judgedOn.questionData.answers
           winner == turns[t].result.winner
       IN  /\ HasWifeTagged(answers)
           /\ winner = FirstWifeTagged(answers).person
           /\ \A name \in Names :
                Score(SessionOf(t).participants, name) =
                  Score(turns[t].judgedOn.participants, name)
                    + (IF name = winner THEN 1 ELSE 0)

\* a wife override on answers two of which, of different persons, are
\* wife-tagged: the earlier one's person has won
C33_Witness ==
  \E t \in TurnIds :
    /\ Done(t) /\ turns[t].path = "wife"
    /\ LET answers == turns[t].judgedOn.questionData.answers
       IN  \E i, j \in 1..Len(answers) :
             /\ i < j
             /\ WifeTagged(answers[i]) /\ WifeTagged(answers[j])
             /\ answers[i].person # answers[j].person
             /\ \A k \in 1..(i - 1) : ~WifeTagged(answers[k])
             /\ turns[t].result.winner = answers[i].person

---------------------------------------------------------------------------
(* The voice gateway *)

\* connection c takes a "prompt" message and finds no session for its callSid
PromptWithoutSession(c) ==
  /\ turns[c].pc = "idle"
  /\ turns'[c].pc # "idle"
  /\ turns'[c].session = NoSession

\* C31: in either gateway a "prompt" on a connection without session (none
\* set up yet, or its session deleted) raises no exception, calls no
\* oracle, and creates or changes no session.
C31_PromptWithoutSessionIsHarmless ==
  [][\A c \in Connections :
       PromptWithoutSession(c)
       => /\ turns'[c].pc # "rejected"
          /\ turns'[c].extractionCalls = 0
          /\ turns'[c].judgmentCalls = 0
          /\ UNCHANGED <<sessions, heap, nextObj>>]_vars

\* the extraction oracle's answer was parsed and merged, the try block of
\* aiResponse did not throw before its decision
VoiceMerged(c) ==
  /\ turns[c].pc \in {"judge", "done"}
  /\ turns[c].extraction = "json"
  /\ turns[c].response.hasData

====
